---- MODULE Spec2Model ----
(***************************************************************************)
(* Duplicate-detection engine of file_manager_system:                      *)
(*   VideoComparisonUtil  (sliding-window fragment matcher)                *)
(*   VideoSimilarityTree  (incremental grouping around a representative)   *)
(*   ImageChecker, MD5Checker, VideoChecker                                *)
(*   DuplicateCheckHelper (dispatch by extension, concatenated results)    *)
(*   VideoAnalyzer.generate_hash_sequence (frame sampling)                 *)
(*   DuplicateService     (status, stop flag, worker thread)               *)
(*                                                                         *)
(* Floats that the code produces by one division n / d are kept as the     *)
(* reduced fraction <<n, d>>: two such floats are equal exactly when the   *)
(* reduced fractions are, and they are ordered as the fractions are.       *)
(***************************************************************************)
EXTENDS Integers, Sequences, FiniteSets, TLC

VARIABLES
    cfg,                \* DuplicateCheckSettings read by DuplicateCheckHelper.__init__
    video_groups,       \* VideoSimilarityTree.video_groups
    parsed_hash_cache,  \* VideoSimilarityTree._parsed_hash_cache
    image_data,         \* ImageChecker.image_data
    md5_groups,         \* MD5Checker.md5_groups (dict, in insertion order)
    fed,                \* paths already handed to DuplicateCheckHelper.add_file
    compared,           \* pairs <<video, representative>> given to calculate_max_similarity
    called,             \* the helper method called last
    ret,                \* the list get_all_results returned, <<>> after any other call
    hashes1,            \* calculate_max_similarity: argument hashes1
    hashes2,            \* calculate_max_similarity: argument hashes2
    similar_distance,   \* calculate_max_similarity: argument similar_distance
    m_pc,               \* position of the caller: "start", "once", "twice"
    rate12,             \* calculate_max_similarity(hashes1, hashes2, similar_distance)
    rate21,             \* calculate_max_similarity(hashes2, hashes1, similar_distance)
    duration,           \* generate_hash_sequence: argument duration, a fraction
    interval,           \* generate_hash_sequence: argument interval
    failing,            \* timestamps at which extract_frame_hash returns None
    hashes,             \* the list generate_hash_sequence returned
    g_pc,               \* position of the caller of generate_hash_sequence
    status,             \* DuplicateService._status
    stop_flag,          \* DuplicateService._stop_flag
    progress,           \* DuplicateService._progress
    file_index,         \* table file_index: the paths in id order
    raising,            \* the files for which helper.add_file raises
    duplicate_results,  \* table of saved duplicate groups
    starting,           \* threads created by start_async_check and not yet started
    workers,            \* the _internal_check threads, in the order they started
    last_api            \* the last call of start_async_check or stop_check and its outcome

analyzerVars == <<duration, interval, failing, hashes, g_pc>>

serviceVars == <<status, stop_flag, progress, file_index, raising,
                 duplicate_results, starting, workers, last_api>>

vars == <<cfg, video_groups, parsed_hash_cache, image_data, md5_groups, fed,
          compared, called, ret,
          hashes1, hashes2, similar_distance, m_pc, rate12, rate21,
          analyzerVars, serviceVars>>

helperVars == <<cfg, video_groups, parsed_hash_cache, image_data, md5_groups,
                fed, compared, called, ret>>

matcherVars == <<hashes1, hashes2, similar_distance, m_pc, rate12, rate21>>

-----------------------------------------------------------------------------
(* Bounds *)

\* longest hash sequence given to the matcher
MaxHashLen == 3
\* largest Hamming threshold given to the matcher
MaxDistance == 3
\* number of add_file calls in one run
MaxAdds == 4

\* perceptual hashes, as bit vectors over BitPositions
HashValues == 0 .. 3
BitPositions == {0, 1, 2}

-----------------------------------------------------------------------------
(* Floats as reduced fractions *)

RECURSIVE Gcd(_, _)
Gcd(a, b) == IF b = 0 THEN a ELSE Gcd(b, a % b)

Div(n, d) == LET g == Gcd(n, d) IN <<n \div g, d \div g>>

Zero == <<0, 1>>
One == <<1, 1>>

Lt(x, y) == x[1] * y[2] < y[1] * x[2]
Ge(x, y) == ~ Lt(x, y)
Gt(x, y) == Lt(y, x)

-----------------------------------------------------------------------------
(* imagehash.ImageHash *)

RECURSIVE Pow2(_)
Pow2(i) == IF i = 0 THEN 1 ELSE 2 * Pow2(i - 1)

Bit(h, i) == (h \div Pow2(i)) % 2

\* ImageHash.__sub__: the number of differing bits
Hamming(a, b) == Cardinality({i \in BitPositions : Bit(a, i) # Bit(b, i)})

-----------------------------------------------------------------------------
(* VideoComparisonUtil *)

HexTokens == {"0", "1", "2", "3"}

hex_to_hash(tok) == CASE tok = "0" -> 0
                      [] tok = "1" -> 1
                      [] tok = "2" -> 2
                      [] tok = "3" -> 3

\* str.strip() on one comma-separated piece: a blank piece becomes ""
strip(tok) == IF tok = " " THEN "" ELSE tok

RECURSIVE SelectTokens(_)
SelectTokens(toks) ==
    IF toks = <<>> THEN <<>>
    ELSE IF strip(Head(toks)) = "" THEN SelectTokens(Tail(toks))
         ELSE <<strip(Head(toks))>> \o SelectTokens(Tail(toks))

\* hash_str is the list hash_str.split(','); <<>> stands for None and ''
parse_hashes(hash_str) ==
    IF hash_str = <<>> THEN <<>>
    ELSE LET toks == SelectTokens(hash_str)
         IN IF \E k \in 1 .. Len(toks) : toks[k] \notin HexTokens
            THEN <<>>
            ELSE [k \in 1 .. Len(toks) |-> hex_to_hash(toks[k])]

FrameSimilar_inclusive(h1, h2, distance) == Hamming(h1, h2) <= distance

\* (h1 - h2) < similar_distance
FrameSimilar(h1, h2, distance) == Hamming(h1, h2) < distance

similar_count(window, short_h, distance) ==
    Cardinality({j \in 1 .. Len(short_h) : FrameSimilar(window[j], short_h[j], distance)})

RECURSIVE SlideWindow_nolast(_, _, _, _, _)
SlideWindow_nolast(long_h, short_h, distance, i, max_rate) ==
    IF i >= Len(long_h) - Len(short_h) THEN max_rate
    ELSE LET window == SubSeq(long_h, i + 1, i + Len(short_h))
             current_rate == Div(similar_count(window, short_h, distance), Len(short_h))
             new_max == IF Gt(current_rate, max_rate) THEN current_rate ELSE max_rate
         IN IF Ge(new_max, One) THEN new_max
            ELSE SlideWindow_nolast(long_h, short_h, distance, i + 1, new_max)

\* the loop  for i in range(long_len - short_len + 1), entered at offset i with max_rate
RECURSIVE SlideWindow(_, _, _, _, _)
SlideWindow(long_h, short_h, distance, i, max_rate) ==
    IF i >= Len(long_h) - Len(short_h) + 1 THEN max_rate
    ELSE LET window == SubSeq(long_h, i + 1, i + Len(short_h))
             current_rate == Div(similar_count(window, short_h, distance), Len(short_h))
             new_max == IF Gt(current_rate, max_rate) THEN current_rate ELSE max_rate
         IN IF Ge(new_max, One) THEN new_max
            ELSE SlideWindow(long_h, short_h, distance, i + 1, new_max)

LongShort_noswap(h1, h2) == <<h1, h2>>

\* long_h, short_h = (hashes1, hashes2) if len(hashes1) >= len(hashes2) else (hashes2, hashes1)
LongShort(h1, h2) == IF Len(h1) >= Len(h2) THEN <<h1, h2>> ELSE <<h2, h1>>

calculate_max_similarity(h1, h2, distance) ==
    IF h1 = <<>> \/ h2 = <<>> THEN Zero
    ELSE LET ls == LongShort(h1, h2)
         IN SlideWindow(ls[1], ls[2], distance, 0, Zero)

-----------------------------------------------------------------------------
(* Calls of calculate_max_similarity on arbitrary arguments *)

HashSeqs == UNION {[1 .. n -> HashValues] : n \in 0 .. MaxHashLen}

MatcherIdle ==
    /\ hashes1 = <<>>
    /\ hashes2 = <<>>
    /\ similar_distance = 0
    /\ m_pc = "idle"
    /\ rate12 = Zero
    /\ rate21 = Zero

\* no call of generate_hash_sequence is under way
AnalyzerIdle ==
    /\ duration = <<0, 1>>
    /\ interval = 1
    /\ failing = {}
    /\ hashes = <<>>
    /\ g_pc = "idle"

\* no DuplicateService is under observation
ServiceIdle ==
    /\ status = "idle"
    /\ stop_flag = FALSE
    /\ progress = [total |-> 0, current |-> 0, status_text |-> ""]
    /\ file_index = <<>>
    /\ raising = {}
    /\ duplicate_results = <<>>
    /\ starting = 0
    /\ workers = <<>>
    /\ last_api = [name |-> "none", result |-> FALSE]

MatcherInit ==
    /\ hashes1 \in HashSeqs
    /\ hashes2 \in HashSeqs
    /\ similar_distance \in 0 .. MaxDistance
    /\ m_pc = "start"
    /\ rate12 = Zero
    /\ rate21 = Zero

\* calculate_max_similarity(hashes1, hashes2, similar_distance)
Compare12 ==
    /\ m_pc = "start"
    /\ rate12' = calculate_max_similarity(hashes1, hashes2, similar_distance)
    /\ m_pc' = "once"
    /\ UNCHANGED <<hashes1, hashes2, similar_distance, rate21>>

\* calculate_max_similarity(hashes2, hashes1, similar_distance)
Compare21 ==
    /\ m_pc = "once"
    /\ rate21' = calculate_max_similarity(hashes2, hashes1, similar_distance)
    /\ m_pc' = "twice"
    /\ UNCHANGED <<hashes1, hashes2, similar_distance, rate12>>

-----------------------------------------------------------------------------
(* The file population: file_index rows, video_features rows, image files *)

\* file_index: path -> row; ext is os.path.splitext(path)[1], case kept
FileIndexTable ==
    "a.mp4" :> [id |-> 1, file_md5 |-> "m1", ext |-> ".mp4"] @@
    "b.mp4" :> [id |-> 2, file_md5 |-> "m2", ext |-> ".mp4"] @@
    "c.MKV" :> [id |-> 3, file_md5 |-> "m3", ext |-> ".MKV"] @@
    "e.mp4" :> [id |-> 4, file_md5 |-> "m5", ext |-> ".mp4"] @@
    "f.mp4" :> [id |-> 5, file_md5 |-> "m1", ext |-> ".mp4"] @@
    "g.avi" :> [id |-> 6, file_md5 |-> "m6", ext |-> ".avi"] @@
    "h.avi" :> [id |-> 7, file_md5 |-> "m7", ext |-> ".avi"] @@
    "p.jpg" :> [id |-> 8, file_md5 |-> "h1", ext |-> ".jpg"] @@
    "q.JPG" :> [id |-> 9, file_md5 |-> "h1", ext |-> ".JPG"] @@
    "r.png" :> [id |-> 10, file_md5 |-> "h2", ext |-> ".png"] @@
    "s.bmp" :> [id |-> 11, file_md5 |-> "", ext |-> ".bmp"] @@
    "t.gif" :> [id |-> 12, file_md5 |-> "h3", ext |-> ".gif"] @@
    "x.txt" :> [id |-> 13, file_md5 |-> "k1", ext |-> ".txt"] @@
    "y" :> [id |-> 14, file_md5 |-> "k1", ext |-> ""] @@
    "z.dat" :> [id |-> 15, file_md5 |-> "", ext |-> ".dat"] @@
    "u.webp" :> [id |-> 16, file_md5 |-> "", ext |-> ".webp"] @@
    "v.jpeg" :> [id |-> 17, file_md5 |-> "h4", ext |-> ".jpeg"] @@
    "w.log" :> [id |-> 18, file_md5 |-> "k2", ext |-> ".log"]

FilePaths == DOMAIN FileIndexTable

\* video_features: file_md5 -> row; video_hashes is the stored string, split at ','
VideoFeatureTable ==
    "m1" :> [video_hashes |-> <<"0", " ", "1", "2">>, duration |-> 6] @@
    "m2" :> [video_hashes |-> <<"0", "1">>, duration |-> 4] @@
    "m3" :> [video_hashes |-> <<"0", "3">>, duration |-> 3] @@
    "m5" :> [video_hashes |-> <<>>, duration |-> 3] @@
    "m6" :> [video_hashes |-> <<"0", "zz">>, duration |-> 0]

\* imagehash.phash(Image.open(path)); a path outside the domain cannot be opened.
\* file_md5 is the value stored at scan time, the pHash is taken from the file as
\* it is now: q.JPG has p.jpg's stored md5 and another pHash
PHashTable ==
    "p.jpg" :> 0 @@ "q.JPG" :> 4 @@ "r.png" :> 7 @@ "s.bmp" :> 3 @@
    "u.webp" :> 1 @@ "v.jpeg" :> 0

\* str.lower() on the extensions of the population
lower(ext) == CASE ext = ".MKV" -> ".mkv"
                [] ext = ".JPG" -> ".jpg"
                [] OTHER -> ext

FileInfo(path) ==
    [id |-> FileIndexTable[path].id, file_path |-> path,
     file_md5 |-> FileIndexTable[path].file_md5]

\* Optional[VideoFileInfoResult] as a set with at most one element
get_video_file_info(path) ==
    IF path \in DOMAIN FileIndexTable
       /\ FileIndexTable[path].file_md5 \in DOMAIN VideoFeatureTable
    THEN {[file_index |-> FileInfo(path),
           video_feature |-> VideoFeatureTable[FileIndexTable[path].file_md5]]}
    ELSE {}

create_video_info(path) == get_video_file_info(path)

\* the DuplicateCheckSettings of one run
Configs ==
    {[video_frame_similar_distance |-> 1, video_frame_similarity_rate |-> r,
      video_max_duration_diff_ratio |-> q, image_threshold |-> 1]
        : r \in {Zero, <<1, 2>>, <<7, 10>>}, q \in {Zero, <<6, 10>>}}
    \cup
    {[video_frame_similar_distance |-> 2, video_frame_similarity_rate |-> <<7, 10>>,
      video_max_duration_diff_ratio |-> q, image_threshold |-> 0]
        : q \in {Zero, <<6, 10>>}}
    \cup
    {[video_frame_similar_distance |-> 1, video_frame_similarity_rate |-> <<7, 10>>,
      video_max_duration_diff_ratio |-> <<6, 10>>, image_threshold |-> 8]}

-----------------------------------------------------------------------------
(* VideoSimilarityTree; T is the tree: [groups, cache, compared] *)

VideoSimilarityNode(p, s) == [path |-> p, similarity |-> s]

get_or_parse_hashes_reset(cache, video_info) ==
    LET md5 == video_info.file_index.file_md5
        cache1 == IF md5 \notin DOMAIN cache
                  THEN md5 :> parse_hashes(video_info.video_feature.video_hashes)
                  ELSE cache
    IN [cache |-> cache1, hashes |-> cache1[md5]]

\* _get_or_parse_hashes: the cache after the call and the list returned
get_or_parse_hashes(cache, video_info) ==
    LET md5 == video_info.file_index.file_md5
        cache1 == IF md5 \notin DOMAIN cache
                  THEN cache @@ (md5 :> parse_hashes(video_info.video_feature.video_hashes))
                  ELSE cache
    IN [cache |-> cache1, hashes |-> cache1[md5]]

DurationRejected_never(ratio, d1, d2) == FALSE

\* lines 107-113; durations of video_features rows are never None
DurationRejected(ratio, d1, d2) ==
    /\ Gt(ratio, Zero)
    /\ LET min_d == IF d1 < d2 THEN d1 ELSE d2
           max_d == IF d1 < d2 THEN d2 ELSE d1
       IN max_d > 0 /\ Lt(Div(min_d, max_d), ratio)

Matches_strict(similarity, frame_similarity_rate) == Gt(similarity, frame_similarity_rate)

\* similarity >= self.frame_similarity_rate
Matches(similarity, frame_similarity_rate) == Ge(similarity, frame_similarity_rate)

JoinGroup_append(group, current_path, similarity, d_new, d_rep) ==
    Append(group, VideoSimilarityNode(current_path, similarity))

JoinGroup_norate(group, current_path, similarity, d_new, d_rep) ==
    IF d_new > d_rep
    THEN <<VideoSimilarityNode(current_path, similarity)>> \o group
    ELSE Append(group, VideoSimilarityNode(current_path, similarity))

JoinGroup_longer_or_equal(group, current_path, similarity, d_new, d_rep) ==
    IF d_new >= d_rep
    THEN <<VideoSimilarityNode(current_path, One)>>
         \o <<[group[1] EXCEPT !.similarity = similarity]>> \o Tail(group)
    ELSE Append(group, VideoSimilarityNode(current_path, similarity))

\* lines 127-136: the group after the video joined it
JoinGroup(group, current_path, similarity, d_new, d_rep) ==
    IF d_new > d_rep
    THEN <<VideoSimilarityNode(current_path, One)>>
         \o <<[group[1] EXCEPT !.similarity = similarity]>> \o Tail(group)
    ELSE Append(group, VideoSimilarityNode(current_path, similarity))

\* line 140 (and line 95): a new group with the video as representative
OpenGroup(groups, current_path) ==
    Append(groups, <<VideoSimilarityNode(current_path, One)>>)

\* the loop  for group in self.video_groups, entered at group g, and line 140 after it
RECURSIVE ScanGroups(_, _, _, _, _)
ScanGroups(T, conf, video_info, current_hashes, g) ==
    LET current_path == video_info.file_index.file_path
    IN IF g > Len(T.groups)
       THEN [T EXCEPT !.groups = OpenGroup(T.groups, current_path)]
       ELSE LET group == T.groups[g]
                representative_path == group[1].path
                representative == get_video_file_info(representative_path)
            IN IF representative = {}
               THEN ScanGroups(T, conf, video_info, current_hashes, g + 1)
               ELSE LET rep == CHOOSE r \in representative : TRUE
                        d1 == video_info.video_feature.duration
                        d2 == rep.video_feature.duration
                    IN IF DurationRejected(conf.video_max_duration_diff_ratio, d1, d2)
                       THEN ScanGroups(T, conf, video_info, current_hashes, g + 1)
                       ELSE LET parsed == get_or_parse_hashes(T.cache, rep)
                                similarity == calculate_max_similarity(
                                    current_hashes, parsed.hashes,
                                    conf.video_frame_similar_distance)
                                T1 == [T EXCEPT !.cache = parsed.cache,
                                                !.compared = @ \cup
                                                    {<<current_path, representative_path>>}]
                            IN IF Matches(similarity, conf.video_frame_similarity_rate)
                               THEN [T1 EXCEPT !.groups[g] =
                                        JoinGroup(group, current_path, similarity, d1, d2)]
                               ELSE ScanGroups(T1, conf, video_info, current_hashes, g + 1)

compare_video_and_group(T, conf, video_info) ==
    LET parsed == get_or_parse_hashes(T.cache, video_info)
        current_hashes == parsed.hashes
        current_path == video_info.file_index.file_path
        T0 == [T EXCEPT !.cache = parsed.cache]
    IN IF current_hashes = <<>>
       THEN [T0 EXCEPT !.groups = OpenGroup(T0.groups, current_path)]
       ELSE ScanGroups(T0, conf, video_info, current_hashes, 1)

add_video(T, conf, video_path) ==
    LET video_info == create_video_info(video_path)
    IN IF video_info # {}
       THEN compare_video_and_group(T, conf, CHOOSE v \in video_info : TRUE)
       ELSE T

\* the members of a group whose DB lookup succeeds, with similarity_rate set
RECURSIVE InfoGroup(_)
InfoGroup(group) ==
    IF group = <<>> THEN <<>>
    ELSE LET item == Head(group)
             info == get_video_file_info(item.path)
         IN IF info # {}
            THEN <<[file_index |-> (CHOOSE v \in info : TRUE).file_index,
                    video_feature |-> (CHOOSE v \in info : TRUE).video_feature,
                    similarity_type |-> "video_feature",
                    similarity_rate |-> item.similarity]>> \o InfoGroup(Tail(group))
            ELSE InfoGroup(Tail(group))

LargeEnough_any(group, min_group_size) == TRUE

LargeEnough(group, min_group_size) == Len(group) >= min_group_size

RECURSIVE get_similar_video_groups(_, _)
get_similar_video_groups(groups, min_group_size) ==
    IF groups = <<>> THEN <<>>
    ELSE LET group == Head(groups)
             rest == get_similar_video_groups(Tail(groups), min_group_size)
         IN IF LargeEnough(group, min_group_size)
               /\ LargeEnough(InfoGroup(group), min_group_size)
            THEN <<InfoGroup(group)>> \o rest
            ELSE rest

-----------------------------------------------------------------------------
(* VideoChecker *)

VIDEO_EXTENSIONS ==
    {".mp4", ".avi", ".mkv", ".mov", ".wmv", ".flv", ".webm", ".mpeg", ".mpg", ".m4v", ".3gp"}

VideoChecker_is_supported(file_extension) == lower(file_extension) \in VIDEO_EXTENSIONS

VideoChecker_add_file(T, conf, file_info) ==
    IF VideoChecker_is_supported(FileIndexTable[file_info.file_path].ext)
    THEN add_video(T, conf, file_info.file_path)
    ELSE T

VideoChecker_get_results(groups) ==
    LET similar_groups == get_similar_video_groups(groups, 2)
    IN [i \in 1 .. Len(similar_groups) |->
          [group_id |-> <<"video_sim_", i - 1>>,
           checker_type |-> "video_similarity",
           files |-> [k \in 1 .. Len(similar_groups[i]) |->
                        [file_path |-> similar_groups[i][k].file_index.file_path,
                         file_md5 |-> similar_groups[i][k].file_index.file_md5,
                         duration |-> similar_groups[i][k].video_feature.duration]]]]

-----------------------------------------------------------------------------
(* ImageChecker *)

IMAGE_EXTENSIONS == {".jpg", ".jpeg", ".png", ".bmp", ".gif", ".webp", ".tiff"}

ImageChecker_is_supported(file_extension) == lower(file_extension) \in IMAGE_EXTENSIONS

ImageData(file_info, hash_val) == [info |-> file_info, hash |-> hash_val]

ImageChecker_add_file(data, file_info) ==
    LET file_path == file_info.file_path
        extension == lower(FileIndexTable[file_path].ext)
    IN IF ImageChecker_is_supported(extension) /\ file_path \in DOMAIN PHashTable
       THEN Append(data, ImageData(file_info, PHashTable[file_path]))
       ELSE data

SameMd5_allow_empty(a, b) == a.info.file_md5 = b.info.file_md5

\* lines 99-106: the exact test of the inner loop
SameMd5(a, b) == a.info.file_md5 # "" /\ a.info.file_md5 = b.info.file_md5

WithinThreshold_reversed(a, b, threshold) == Hamming(a.hash, b.hash) >= threshold

WithinThreshold_off_by_one(a, b, threshold) == Hamming(a.hash, b.hash) <= threshold + 1

WithinThreshold_strict(a, b, threshold) == Hamming(a.hash, b.hash) < threshold

\* lines 111-112: the perceptual test of the inner loop
WithinThreshold(a, b, threshold) == Hamming(a.hash, b.hash) <= threshold

AlreadyGrouped_never(k, visited) == FALSE

\* if visited[i]: continue  and  if visited[j]: continue
AlreadyGrouped(k, visited) == k \in visited

CompareWith_last(i, current_group_indices) ==
    current_group_indices[Len(current_group_indices)]

\* the image a candidate j is tested against: self.image_data[i], the seed
CompareWith(i, current_group_indices) == i

\* the loop  for j in range(i + 1, num_images), entered at j
RECURSIVE InnerLoop(_, _, _, _, _, _)
InnerLoop(data, threshold, i, j, visited, current_group_indices) ==
    IF j > Len(data)
    THEN [visited |-> visited, indices |-> current_group_indices]
    ELSE IF AlreadyGrouped(j, visited)
         THEN InnerLoop(data, threshold, i, j + 1, visited, current_group_indices)
         ELSE IF \/ SameMd5(data[CompareWith(i, current_group_indices)], data[j])
                 \/ WithinThreshold(data[CompareWith(i, current_group_indices)],
                                    data[j], threshold)
              THEN InnerLoop(data, threshold, i, j + 1, visited \cup {j},
                             Append(current_group_indices, j))
              ELSE InnerLoop(data, threshold, i, j + 1, visited, current_group_indices)

ImageGroupEmitted_any(current_group_indices) == TRUE

\* if len(current_group_indices) > 1
ImageGroupEmitted(current_group_indices) == Len(current_group_indices) > 1

\* the loop  for i in range(num_images), entered at i
RECURSIVE OuterLoop(_, _, _, _, _)
OuterLoop(data, threshold, i, visited, results) ==
    IF i > Len(data) THEN results
    ELSE IF AlreadyGrouped(i, visited)
         THEN OuterLoop(data, threshold, i + 1, visited, results)
         ELSE LET inner == InnerLoop(data, threshold, i, i + 1, visited \cup {i}, <<i>>)
                  group == [group_name |-> <<"img_sim_", Len(results) + 1>>,
                            file_ids |-> [k \in 1 .. Len(inner.indices) |->
                                            data[inner.indices[k]].info.id]]
              IN OuterLoop(data, threshold, i + 1, inner.visited,
                           IF ImageGroupEmitted(inner.indices)
                           THEN Append(results, group) ELSE results)

ImageChecker_get_results(data, threshold) == OuterLoop(data, threshold, 1, {}, <<>>)

-----------------------------------------------------------------------------
(* MD5Checker; the dict md5_groups is a sequence of [md5, files] in insertion order *)

MD5Checker_is_supported(file_path) == TRUE

MD5Checker_add_file(groups, file_info) ==
    LET md5 == file_info.file_md5
    IN IF md5 = "" THEN groups
       ELSE IF \E k \in 1 .. Len(groups) : groups[k].md5 = md5
            THEN [k \in 1 .. Len(groups) |->
                    IF groups[k].md5 = md5
                    THEN [groups[k] EXCEPT !.files = Append(@, file_info)]
                    ELSE groups[k]]
            ELSE Append(groups, [md5 |-> md5, files |-> <<file_info>>])

Md5GroupEmitted_any(files) == TRUE

\* if len(files) > 1
Md5GroupEmitted(files) == Len(files) > 1

RECURSIVE MD5Checker_get_results(_)
MD5Checker_get_results(groups) ==
    IF groups = <<>> THEN <<>>
    ELSE LET files == Head(groups).files
             group == [group_name |-> <<Head(groups).md5>>,
                       files |-> [k \in 1 .. Len(files) |->
                                    [file_id |-> files[k].id,
                                     similarity_type |-> "md5",
                                     similarity_rate |-> One]]]
         IN IF Md5GroupEmitted(files)
            THEN <<group>> \o MD5Checker_get_results(Tail(groups))
            ELSE MD5Checker_get_results(Tail(groups))

-----------------------------------------------------------------------------
(* DuplicateCheckHelper *)

checkers_md5_first == <<"md5", "video", "image">>

\* self.checkers
checkers == <<"video", "image", "md5">>

is_supported(checker, ext) ==
    CASE checker = "video" -> VideoChecker_is_supported(ext)
      [] checker = "image" -> ImageChecker_is_supported(ext)
      [] checker = "md5" -> MD5Checker_is_supported(ext)

\* the checker the loop of add_file stops at
FirstSupporting(ext) ==
    checkers[CHOOSE k \in 1 .. Len(checkers) :
                /\ is_supported(checkers[k], ext)
                /\ \A m \in 1 .. k - 1 : ~ is_supported(checkers[m], ext)]

Receives_nobreak(checker, ext) == is_supported(checker, ext)

\* for checker in self.checkers: if checker.is_supported(ext): add_file; break
Receives(checker, ext) == checker = FirstSupporting(ext)

Tree == [groups |-> video_groups, cache |-> parsed_hash_cache, compared |-> compared]

\* the three checkers of the helper under observation
Helper == [tree |-> Tree, image_data |-> image_data, md5_groups |-> md5_groups]

\* DuplicateCheckHelper(): the checkers as their constructors leave them
NewHelper ==
    [tree |-> [groups |-> <<>>, cache |-> <<>>, compared |-> {}],
     image_data |-> <<>>, md5_groups |-> <<>>]

\* DuplicateCheckHelper.add_file(file_info) on the helper h
add_file(h, config, path) ==
    LET file_info == FileInfo(path)
        ext == lower(FileIndexTable[path].ext)
    IN [tree |-> IF Receives("video", ext)
                 THEN VideoChecker_add_file(h.tree, config, file_info)
                 ELSE h.tree,
        image_data |-> IF Receives("image", ext)
                       THEN ImageChecker_add_file(h.image_data, file_info)
                       ELSE h.image_data,
        md5_groups |-> IF Receives("md5", ext)
                       THEN MD5Checker_add_file(h.md5_groups, file_info)
                       ELSE h.md5_groups]

\* DuplicateCheckHelper.add_file(file_info)
AddFile(path) ==
    /\ called # "idle"
    /\ path \notin fed
    /\ Cardinality(fed) < MaxAdds
    /\ \E h \in {add_file(Helper, cfg, path)} :
          /\ video_groups' = h.tree.groups
          /\ parsed_hash_cache' = h.tree.cache
          /\ compared' = h.tree.compared
          /\ image_data' = h.image_data
          /\ md5_groups' = h.md5_groups
    /\ fed' = fed \cup {path}
    /\ called' = "add_file"
    /\ ret' = <<>>
    /\ UNCHANGED cfg
    /\ UNCHANGED <<matcherVars, analyzerVars, serviceVars>>

\* checker.get_results() of one element of self.checkers
get_results(checker, h, config) ==
    CASE checker = "video" -> VideoChecker_get_results(h.tree.groups)
      [] checker = "image" -> ImageChecker_get_results(h.image_data, config.image_threshold)
      [] checker = "md5" -> MD5Checker_get_results(h.md5_groups)

extend_prepend(all_results, results) == results \o all_results

\* all_results.extend(results)
extend(all_results, results) == all_results \o results

\* the loop  for checker in self.checkers, entered at the k-th checker
RECURSIVE CollectResults(_, _, _, _)
CollectResults(k, all_results, h, config) ==
    IF k > Len(checkers) THEN all_results
    ELSE CollectResults(k + 1,
                        extend(all_results, get_results(checkers[k], h, config)),
                        h, config)

\* DuplicateCheckHelper.get_all_results() on the helper h
get_all_results(h, config) == CollectResults(1, <<>>, h, config)

\* DuplicateCheckHelper.get_all_results()
GetAllResults ==
    /\ called \in {"init", "add_file"}
    /\ ret' = get_all_results(Helper, cfg)
    /\ called' = "get_all_results"
    /\ UNCHANGED <<cfg, video_groups, parsed_hash_cache, image_data, md5_groups,
                   fed, compared>>
    /\ UNCHANGED <<matcherVars, analyzerVars, serviceVars>>

HelperIdle ==
    /\ cfg = CHOOSE c \in Configs : TRUE
    /\ video_groups = <<>>
    /\ parsed_hash_cache = <<>>
    /\ image_data = <<>>
    /\ md5_groups = <<>>
    /\ fed = {}
    /\ compared = {}
    /\ called = "idle"
    /\ ret = <<>>

\* DuplicateCheckHelper.__init__ with one of the configurations
Init ==
    /\ cfg \in Configs
    /\ video_groups = <<>>
    /\ parsed_hash_cache = <<>>
    /\ image_data = <<>>
    /\ md5_groups = <<>>
    /\ fed = {}
    /\ compared = {}
    /\ called = "init"
    /\ ret = <<>>
    /\ MatcherIdle
    /\ AnalyzerIdle
    /\ ServiceIdle

Next ==
    \/ \E path \in FilePaths : AddFile(path)
    \/ GetAllResults

Spec == Init /\ [][Next]_vars

-----------------------------------------------------------------------------
(* calculate_max_similarity called with both argument orders *)

InitMatcher == HelperIdle /\ MatcherInit /\ AnalyzerIdle /\ ServiceIdle

NextMatcher ==
    \/ Compare12 /\ UNCHANGED <<helperVars, analyzerVars, serviceVars>>
    \/ Compare21 /\ UNCHANGED <<helperVars, analyzerVars, serviceVars>>

SpecMatcher == InitMatcher /\ [][NextMatcher]_vars

-----------------------------------------------------------------------------
(* Vocabulary of the properties *)

\* the members of an emitted group, whichever checker emitted it
Members(group) == IF "file_ids" \in DOMAIN group THEN group.file_ids ELSE group.files

\* the videos that have a video_features row
KnownVideos ==
    {p \in FilePaths : /\ lower(FileIndexTable[p].ext) \in VIDEO_EXTENSIONS
                       /\ FileIndexTable[p].file_md5 \in DOMAIN VideoFeatureTable}

DurationOf(p) == VideoFeatureTable[FileIndexTable[p].file_md5].duration

HashesOf(p) == parse_hashes(VideoFeatureTable[FileIndexTable[p].file_md5].video_hashes)

\* the step is add_video(v)
Adds(v) == v \notin fed /\ fed' = fed \cup {v}

\* min(d1,d2)/max(d1,d2) is below max_duration_diff_ratio, the filter being on
BelowRatio(v, r) ==
    LET q == cfg.video_max_duration_diff_ratio
        min_d == IF DurationOf(v) < DurationOf(r) THEN DurationOf(v) ELSE DurationOf(r)
        max_d == IF DurationOf(v) < DurationOf(r) THEN DurationOf(r) ELSE DurationOf(v)
    IN q[1] > 0 /\ max_d > 0 /\ min_d * q[2] < q[1] * max_d

SimilarityOf(v, r) ==
    calculate_max_similarity(HashesOf(v), HashesOf(r), cfg.video_frame_similar_distance)

\* the group's representative lets v in
Qualifies(v, r) ==
    /\ ~ BelowRatio(v, r)
    /\ LET s == SimilarityOf(v, r)
           f == cfg.video_frame_similarity_rate
       IN s[1] * f[2] >= f[1] * s[2]

-----------------------------------------------------------------------------
(* C1 *)

\* C1: every group get_all_results returns has at least 2 members, and a
\* population of at most one file yields no group.
C1_GroupsHaveTwoMembers ==
    called = "get_all_results" =>
        /\ \A i \in 1 .. Len(ret) : Len(Members(ret[i])) >= 2
        /\ Cardinality(fed) <= 1 => ret = <<>>

\* results with an image group were taken while the tree held a group of one
\* video and the MD5 checker a bucket of one file
C1_Witness ==
    /\ called = "get_all_results"
    /\ \E i \in 1 .. Len(ret) : "file_ids" \in DOMAIN ret[i]
    /\ \E g \in 1 .. Len(video_groups) : Len(video_groups[g]) = 1
    /\ \E k \in 1 .. Len(md5_groups) : Len(md5_groups[k].files) = 1

-----------------------------------------------------------------------------
(* C2 *)

\* C2: in every group of the tree the member at index 0 is at least as long
\* as every other member.
C2_RepresentativeIsLongest ==
    \A g \in 1 .. Len(video_groups) :
        \A k \in 1 .. Len(video_groups[g]) :
            DurationOf(video_groups[g][1].path) >= DurationOf(video_groups[g][k].path)

\* a group of three whose representative is strictly longer than a member
C2_Witness ==
    \E g \in 1 .. Len(video_groups) :
        /\ Len(video_groups[g]) >= 3
        /\ DurationOf(video_groups[g][1].path) > DurationOf(video_groups[g][3].path)

-----------------------------------------------------------------------------
(* C3 *)

\* C3: add_video of a video with a non-empty hash sequence joins the first
\* group, in creation order, whose representative passes the duration filter
\* and is similar at a rate >= frame_similarity_rate, and no other group; if
\* there is none it opens a new group holding the video at similarity 1.0.
C3_JoinsFirstQualifyingGroup ==
    [][\A v \in KnownVideos :
        (Adds(v) /\ HashesOf(v) # <<>>) =>
            LET Q == {g \in 1 .. Len(video_groups) : Qualifies(v, video_groups[g][1].path)}
            IN IF Q = {}
               THEN video_groups' =
                        Append(video_groups, <<[path |-> v, similarity |-> One]>>)
               ELSE LET g0 == CHOOSE g \in Q : \A h \in Q : g <= h
                    IN /\ Len(video_groups') = Len(video_groups)
                       /\ \A g \in 1 .. Len(video_groups) :
                            g # g0 => video_groups'[g] = video_groups[g]
                       /\ Len(video_groups'[g0]) = Len(video_groups[g0]) + 1
                       /\ \E k \in 1 .. Len(video_groups'[g0]) :
                            video_groups'[g0][k].path = v]_vars

\* a video sits in an earlier group of two although the representative of a
\* later group would have let it in at a higher similarity
C3_Witness ==
    \E g \in 1 .. Len(video_groups) : \E h \in 1 .. Len(video_groups) :
        /\ g < h
        /\ Len(video_groups[g]) = 2
        /\ Len(video_groups[h]) = 1
        /\ \E k \in 1 .. 2 :
            LET v == video_groups[g][k].path
                other == video_groups[g][3 - k].path
            IN /\ Qualifies(v, video_groups[h][1].path)
               /\ Gt(SimilarityOf(v, video_groups[h][1].path), SimilarityOf(v, other))
               /\ SimilarityOf(v, other) = cfg.video_frame_similarity_rate

-----------------------------------------------------------------------------
(* C4 *)

\* C4: a video joining a group at similarity s goes to index 0 with similarity
\* 1.0, the old representative taking s, when it is strictly longer than the
\* representative; otherwise it is appended with similarity s. Nothing else
\* in the tree changes.
C4_JoinEffect ==
    [][\A v \in KnownVideos :
        (Adds(v) /\ Len(video_groups') = Len(video_groups)) =>
            \E g \in 1 .. Len(video_groups) :
                LET old == video_groups[g]
                    rep == old[1].path
                    s == SimilarityOf(v, rep)
                IN /\ \A h \in 1 .. Len(video_groups) :
                        h # g => video_groups'[h] = video_groups[h]
                   /\ IF DurationOf(v) > DurationOf(rep)
                      THEN video_groups'[g] =
                             <<[path |-> v, similarity |-> One],
                               [path |-> rep, similarity |-> s]>> \o Tail(old)
                      ELSE video_groups'[g] =
                             Append(old, [path |-> v, similarity |-> s])]_vars

\* a representative with two members behind it: one of its own length, one
\* shorter and only partly similar
C4_Witness ==
    \E g \in 1 .. Len(video_groups) :
        /\ Len(video_groups[g]) = 3
        /\ \E k \in 2 .. 3 :
            /\ DurationOf(video_groups[g][k].path) = DurationOf(video_groups[g][1].path)
            /\ video_groups[g][k].similarity = One
        /\ \E k \in 2 .. 3 :
            /\ DurationOf(video_groups[g][k].path) < DurationOf(video_groups[g][1].path)
            /\ Lt(video_groups[g][k].similarity, One)

-----------------------------------------------------------------------------
(* C5 *)

\* C5: every similarity in the tree lies in [0.0, 1.0] and the member at
\* index 0 of every group has similarity exactly 1.0.
C5_SimilarityRange ==
    \A g \in 1 .. Len(video_groups) :
        /\ video_groups[g][1].similarity = One
        /\ \A k \in 1 .. Len(video_groups[g]) :
            LET s == video_groups[g][k].similarity
            IN s[2] > 0 /\ 0 <= s[1] /\ s[1] <= s[2]

\* a member whose similarity is strictly between 0 and 1
C5_Witness ==
    \E g \in 1 .. Len(video_groups) : \E k \in 1 .. Len(video_groups[g]) :
        LET s == video_groups[g][k].similarity
        IN 0 < s[1] /\ s[1] < s[2]

-----------------------------------------------------------------------------
(* C6 *)

-----------------------------------------------------------------------------
(* C7 *)

\* C7: a video with an empty hash sequence stays alone in its group whatever
\* is added later, and get_similar_video_groups(2) never returns that group.
C7_EmptyHashVideoStaysAlone ==
    /\ \A g \in 1 .. Len(video_groups) :
        (\E k \in 1 .. Len(video_groups[g]) : HashesOf(video_groups[g][k].path) = <<>>)
            => Len(video_groups[g]) = 1
    /\ \A i \in 1 .. Len(get_similar_video_groups(video_groups, 2)) :
        \A k \in 1 .. Len(get_similar_video_groups(video_groups, 2)[i]) :
            HashesOf(get_similar_video_groups(video_groups, 2)[i][k].file_index.file_path)
                # <<>>

-----------------------------------------------------------------------------
(* C8 *)

\* the match rate of the window of long_h at offset i, as a fraction
WindowRate(long_h, short_h, i, distance) ==
    <<Cardinality({j \in 1 .. Len(short_h) : Hamming(long_h[i + j], short_h[j]) < distance}),
      Len(short_h)>>

\* x is the largest window rate of short_h over long_h
IsMaxWindowRate(x, long_h, short_h, distance) ==
    LET rates == {WindowRate(long_h, short_h, i, distance) :
                    i \in 0 .. Len(long_h) - Len(short_h)}
    IN \E r \in rates :
        /\ x[1] * r[2] = r[1] * x[2]
        /\ \A q \in rates : r[1] * q[2] >= q[1] * r[2]

\* C8: calculate_max_similarity returns 0.0 when a sequence is empty, and
\* otherwise the maximum over all offsets of the share of positions of the
\* shorter sequence whose Hamming distance to the window is strictly below
\* the threshold; the early exit does not change it.
C8_MaxWindowRate ==
    m_pc \in {"once", "twice"} =>
        IF hashes1 = <<>> \/ hashes2 = <<>>
        THEN rate12 = Zero
        ELSE IF Len(hashes1) >= Len(hashes2)
             THEN IsMaxWindowRate(rate12, hashes1, hashes2, similar_distance)
             ELSE IsMaxWindowRate(rate12, hashes2, hashes1, similar_distance)

\* the first window matches fully, a later window does not
C8_Witness ==
    /\ m_pc = "once"
    /\ Len(hashes1) = 3
    /\ Len(hashes2) = 2
    /\ rate12 = One
    /\ WindowRate(hashes1, hashes2, 0, similar_distance)[1] = 2
    /\ WindowRate(hashes1, hashes2, 1, similar_distance)[1] = 1

-----------------------------------------------------------------------------
(* C9 *)

\* C9: calculate_max_similarity gives the same value for both orders of two
\* non-empty sequences.
C9_Symmetric ==
    (m_pc = "twice" /\ hashes1 # <<>> /\ hashes2 # <<>>) => rate12 = rate21

\* both orders evaluated on sequences of different lengths, partly similar
C9_Witness ==
    /\ m_pc = "twice"
    /\ Len(hashes1) = 2
    /\ Len(hashes2) = 3
    /\ rate12 = <<1, 2>>
    /\ rate21 = <<1, 2>>

-----------------------------------------------------------------------------
(* C10 *)

\* C10: a non-empty sequence compared with itself at a threshold above 0 has
\* similarity 1.0.
C10_SelfSimilarity ==
    (m_pc \in {"once", "twice"} /\ hashes1 # <<>> /\ hashes1 = hashes2
        /\ similar_distance > 0) => rate12 = One

\* a sequence of distinct hashes compared with itself at threshold 1
C10_Witness ==
    /\ m_pc = "once"
    /\ hashes1 = hashes2
    /\ Len(hashes1) = 3
    /\ hashes1[1] # hashes1[2]
    /\ similar_distance = 1
    /\ rate12 = One

-----------------------------------------------------------------------------
(* C11 *)

\* the groups of the returned list by the checker that emitted them
IsVideoGroup(group) == "group_id" \in DOMAIN group

IsImageGroup(group) == "file_ids" \in DOMAIN group

IsMd5Group(group) == "group_name" \in DOMAIN group /\ "files" \in DOMAIN group

ImageGroups == SelectSeq(ret, IsImageGroup)

Range(seq) == {seq[k] : k \in 1 .. Len(seq)}

\* the scenario: three images A, B, C were added in that order, A and B with
\* one exact hash, C with another, C at distance 3 from A, threshold 8
ScenarioABC ==
    /\ called = "get_all_results"
    /\ Len(image_data) = 3
    /\ image_data[1].info.file_md5 # ""
    /\ image_data[1].info.file_md5 = image_data[2].info.file_md5
    /\ image_data[3].info.file_md5 # image_data[1].info.file_md5
    /\ Hamming(image_data[1].hash, image_data[3].hash) = 3
    /\ cfg.image_threshold = 8

\* C11 as stated: in the scenario get_results emits exactly one group, its
\* members are A and B, and C is not a member of it.
C11_OnlyExactPairGrouped ==
    ScenarioABC =>
        /\ Len(ImageGroups) = 1
        /\ Range(ImageGroups[1].file_ids) = {image_data[1].info.id, image_data[2].info.id}

\* C11: in the scenario get_results emits exactly one group, and its members
\* are A, B and C in that order: C joins the seed A by perceptual distance.
C11_ThirdJoinsSeedGroup ==
    ScenarioABC =>
        /\ Len(ImageGroups) = 1
        /\ ImageGroups[1].file_ids =
              <<image_data[1].info.id, image_data[2].info.id, image_data[3].info.id>>

\* the scenario was run and the one group returned holds three images
C11_Witness ==
    /\ ScenarioABC
    /\ Len(ret) = 1
    /\ Len(Members(ret[1])) = 3

-----------------------------------------------------------------------------
(* C12 *)

\* the position in image_data of the image with this id
IndexOfId(id) == CHOOSE k \in 1 .. Len(image_data) : image_data[k].info.id = id

IdAt(k) == image_data[k].info.id

\* the image at position j is a non-seed member of the emitted group seeded at i
InGroupOf(i, j) ==
    \E g \in 1 .. Len(ImageGroups) :
        /\ ImageGroups[g].file_ids[1] = IdAt(i)
        /\ \E k \in 2 .. Len(ImageGroups[g].file_ids) : ImageGroups[g].file_ids[k] = IdAt(j)

\* the image at position i is a seed: no emitted group has it as a non-seed member
IsSeed(i) == \A s \in 1 .. Len(image_data) : ~ InGroupOf(s, i)

\* the image at position j was taken by a seed before position i
TakenBefore(j, i) == \E s \in 1 .. i - 1 : InGroupOf(s, j)

\* the two tests of the claim, on the images at positions i and j
ExactEqual(i, j) ==
    /\ image_data[i].info.file_md5 # ""
    /\ image_data[i].info.file_md5 = image_data[j].info.file_md5

DistanceOf(i, j) == Hamming(image_data[i].hash, image_data[j].hash)

\* C12: for each seed i and each later image j no earlier seed has taken, j
\* is in i's emitted group if and only if the exact hashes are non-empty and
\* equal or the pHash distance is at most the threshold.
C12_JoinCondition ==
    called = "get_all_results" =>
        \A i \in 1 .. Len(image_data) : \A j \in i + 1 .. Len(image_data) :
            (IsSeed(i) /\ ~ TakenBefore(j, i)) =>
                (InGroupOf(i, j) <=>
                    (ExactEqual(i, j) \/ DistanceOf(i, j) <= cfg.image_threshold))

\* one seed took an image beyond the threshold by equal exact hashes, took
\* another with a different exact hash at a distance equal to the threshold,
\* and left a third one out
C12_Witness ==
    /\ called = "get_all_results"
    /\ \E i \in 1 .. Len(image_data) :
        /\ IsSeed(i)
        /\ \E j \in i + 1 .. Len(image_data) :
            /\ InGroupOf(i, j)
            /\ ExactEqual(i, j)
            /\ DistanceOf(i, j) > cfg.image_threshold
        /\ \E j \in i + 1 .. Len(image_data) :
            /\ InGroupOf(i, j)
            /\ ~ ExactEqual(i, j)
            /\ DistanceOf(i, j) = cfg.image_threshold
        /\ \E j \in i + 1 .. Len(image_data) :
            ~ TakenBefore(j, i) /\ ~ InGroupOf(i, j)

-----------------------------------------------------------------------------
(* C13 *)

\* a member record that carries similarity metadata
CarriesSimilarity(member) ==
    /\ "similarity_type" \in DOMAIN member
    /\ "similarity_rate" \in DOMAIN member

\* the metadata the claim gives the k-th member of an image group seeded at
\* position i: Exact ("md5") at 1.0, or PerceptualHash ("hash") at 1 - d/64
ClaimedSimilarity(i, j) ==
    IF i = j \/ ExactEqual(i, j)
    THEN [similarity_type |-> "md5", similarity_rate |-> One]
    ELSE [similarity_type |-> "hash",
          similarity_rate |-> Div(64 - DistanceOf(i, j), 64)]

\* C13 as stated: every member of an emitted image group carries similarity
\* metadata, Exact at 1.0 when it joined by exact hash and PerceptualHash at
\* 1 - d/64 when it joined at distance d; and in every emitted group a member
\* of type Exact has rate 1.0.
C13_MembersCarrySimilarity ==
    called = "get_all_results" =>
        \A g \in 1 .. Len(ret) :
            /\ IsImageGroup(ret[g]) =>
                /\ "files" \in DOMAIN ret[g]
                /\ \A k \in 1 .. Len(ret[g].files) :
                    /\ CarriesSimilarity(ret[g].files[k])
                    /\ LET i == IndexOfId(ret[g].files[1].file_id)
                           j == IndexOfId(ret[g].files[k].file_id)
                       IN /\ ret[g].files[k].similarity_type
                                = ClaimedSimilarity(i, j).similarity_type
                          /\ ret[g].files[k].similarity_rate
                                = ClaimedSimilarity(i, j).similarity_rate
            /\ "files" \in DOMAIN ret[g] =>
                \A k \in 1 .. Len(ret[g].files) :
                    (/\ CarriesSimilarity(ret[g].files[k])
                     /\ ret[g].files[k].similarity_type = "md5")
                        => ret[g].files[k].similarity_rate = One

-----------------------------------------------------------------------------
(* C14 *)

\* C14 as stated: with threshold 0 every non-seed member of every emitted
\* image group has the same non-empty exact hash as the group's seed.
C14_ThresholdZeroOnlyExact ==
    (called = "get_all_results" /\ cfg.image_threshold = 0) =>
        \A i \in 1 .. Len(image_data) : \A j \in 1 .. Len(image_data) :
            InGroupOf(i, j) => ExactEqual(i, j)

\* C14: with threshold 0 every non-seed member of every emitted image group
\* has the seed's non-empty exact hash or a pHash identical to the seed's.
C14_ThresholdZeroExactOrIdentical ==
    (called = "get_all_results" /\ cfg.image_threshold = 0) =>
        \A i \in 1 .. Len(image_data) : \A j \in 1 .. Len(image_data) :
            InGroupOf(i, j) =>
                (ExactEqual(i, j) \/ image_data[i].hash = image_data[j].hash)

\* at threshold 0 one group holds a member with the seed's exact hash and
\* another pHash, and a member with another exact hash and the seed's pHash,
\* while an image at distance 1 of the seed stayed out
C14_Witness ==
    /\ called = "get_all_results"
    /\ cfg.image_threshold = 0
    /\ \E i \in 1 .. Len(image_data) :
        /\ \E j \in 1 .. Len(image_data) :
            InGroupOf(i, j) /\ ExactEqual(i, j) /\ DistanceOf(i, j) > 0
        /\ \E j \in 1 .. Len(image_data) :
            InGroupOf(i, j) /\ ~ ExactEqual(i, j) /\ DistanceOf(i, j) = 0
        /\ \E j \in i + 1 .. Len(image_data) :
            ~ InGroupOf(i, j) /\ DistanceOf(i, j) = 1

-----------------------------------------------------------------------------
(* C15 *)

\* the number of places the id takes in the emitted image groups
Occurrences(id) ==
    Cardinality({<<g, k>> \in (1 .. Len(ImageGroups)) \X (1 .. Len(image_data)) :
                    /\ k <= Len(ImageGroups[g].file_ids)
                    /\ ImageGroups[g].file_ids[k] = id})

\* the seed at position i reaches the image at position j
Reaches(i, j) == ExactEqual(i, j) \/ DistanceOf(i, j) <= cfg.image_threshold

\* C15: no image takes two places in the emitted image groups, and a non-seed
\* member of a group is reached by no seed inserted before the group's seed.
C15_OneGroupPerImage ==
    called = "get_all_results" =>
        /\ \A j \in 1 .. Len(image_data) : Occurrences(IdAt(j)) <= 1
        /\ \A i \in 1 .. Len(image_data) : \A j \in 1 .. Len(image_data) :
            InGroupOf(i, j) =>
                /\ i < j
                /\ \A s \in 1 .. i - 1 : IsSeed(s) => ~ Reaches(s, j)

\* an image two seeds reach is a member of the earlier seed's group, and the
\* later seed is in no group
C15_Witness ==
    /\ called = "get_all_results"
    /\ \E i \in 1 .. Len(image_data) : \E s \in i + 1 .. Len(image_data) :
        \E j \in s + 1 .. Len(image_data) :
            /\ InGroupOf(i, j)
            /\ IsSeed(s)
            /\ Reaches(s, j)
            /\ Occurrences(IdAt(j)) = 1
            /\ Occurrences(IdAt(s)) = 0

-----------------------------------------------------------------------------
(* C16 *)

Md5Groups == SelectSeq(ret, IsMd5Group)

\* the files add_file gave to the MD5Checker: neither a video nor an image extension
Md5Fed ==
    {p \in fed : lower(FileIndexTable[p].ext) \notin VIDEO_EXTENSIONS \cup IMAGE_EXTENSIONS}

\* the ids of the files added to the MD5Checker with this exact hash
AddedWith(md5) ==
    {FileIndexTable[p].id : p \in {q \in Md5Fed : FileIndexTable[q].file_md5 = md5}}

AllMd5 == {FileIndexTable[p].file_md5 : p \in FilePaths} \ {""}

\* C16: the MD5 groups returned are one group per non-empty exact hash added
\* at least twice and no other; a group is named by its hash, its members are
\* exactly the files added with that hash, each of type MD5 with rate 1.0.
C16_Md5GroupPerRepeatedHash ==
    called = "get_all_results" =>
        /\ \A md5 \in AllMd5 :
            Cardinality({g \in 1 .. Len(Md5Groups) : Md5Groups[g].group_name = <<md5>>})
                = IF Cardinality(AddedWith(md5)) >= 2 THEN 1 ELSE 0
        /\ \A g \in 1 .. Len(Md5Groups) :
            /\ \E md5 \in AllMd5 : Md5Groups[g].group_name = <<md5>>
            /\ {Md5Groups[g].files[k].file_id : k \in 1 .. Len(Md5Groups[g].files)}
                  = AddedWith(Md5Groups[g].group_name[1])
            /\ Len(Md5Groups[g].files) = Cardinality(AddedWith(Md5Groups[g].group_name[1]))
            /\ \A k \in 1 .. Len(Md5Groups[g].files) :
                /\ Md5Groups[g].files[k].similarity_type = "md5"
                /\ Md5Groups[g].files[k].similarity_rate = One

\* one hash was added twice and one once, and exactly one MD5 group came back
C16_Witness ==
    /\ called = "get_all_results"
    /\ \E md5 \in AllMd5 : Cardinality(AddedWith(md5)) = 2
    /\ \E md5 \in AllMd5 : Cardinality(AddedWith(md5)) = 1
    /\ Len(Md5Groups) = 1
    /\ Len(Md5Groups[1].files) = 2

-----------------------------------------------------------------------------
(* C17 *)

PathOfId(id) == CHOOSE p \in FilePaths : FileIndexTable[p].id = id

\* no returned MD5 group is named by the empty hash or holds a file with an
\* empty exact hash
NoEmptyHashInMd5Groups ==
    \A g \in 1 .. Len(Md5Groups) :
        /\ Md5Groups[g].group_name # <<"">>
        /\ \A k \in 1 .. Len(Md5Groups[g].files) :
            FileIndexTable[PathOfId(Md5Groups[g].files[k].file_id)].file_md5 # ""

\* two images with empty exact hashes share a group only within the threshold
NoJoinOnEmptyHashes ==
    \A i \in 1 .. Len(image_data) : \A j \in 1 .. Len(image_data) :
        (/\ InGroupOf(i, j)
         /\ image_data[i].info.file_md5 = ""
         /\ image_data[j].info.file_md5 = "")
            => DistanceOf(i, j) <= cfg.image_threshold

\* C17: MD5Checker.add_file of a file with an empty exact hash leaves the
\* buckets unchanged, no returned MD5 group holds a file with an empty hash,
\* and ImageChecker never joins two images on equal empty hashes.
C17_EmptyHashNeverExact ==
    [][/\ \A p \in FilePaths :
            (/\ Adds(p)
             /\ FileIndexTable[p].file_md5 = ""
             /\ lower(FileIndexTable[p].ext) \notin VIDEO_EXTENSIONS \cup IMAGE_EXTENSIONS)
                => md5_groups' = md5_groups
       /\ called' = "get_all_results" =>
            (NoEmptyHashInMd5Groups /\ NoJoinOnEmptyHashes)']_vars

\* a file with an empty hash went to the MD5Checker, which holds no bucket,
\* and two images with empty hashes, further apart than the threshold, are
\* both in no group
C17_Witness ==
    /\ called = "get_all_results"
    /\ \E p \in Md5Fed : FileIndexTable[p].file_md5 = ""
    /\ md5_groups = <<>>
    /\ \E i \in 1 .. Len(image_data) : \E j \in i + 1 .. Len(image_data) :
        /\ image_data[i].info.file_md5 = ""
        /\ image_data[j].info.file_md5 = ""
        /\ DistanceOf(i, j) > cfg.image_threshold
        /\ Occurrences(IdAt(i)) = 0
        /\ Occurrences(IdAt(j)) = 0

-----------------------------------------------------------------------------
(* C18 *)

ExtOf(p) == lower(FileIndexTable[p].ext)

\* the three checkers' states
VideoCheckerState == <<video_groups, parsed_hash_cache, compared>>

\* the step gave the file to the VideoChecker: a video with a row is in a group
VideoCheckerTook(p) ==
    p \in KnownVideos =>
        \E g \in 1 .. Len(video_groups') : \E k \in 1 .. Len(video_groups'[g]) :
            video_groups'[g][k].path = p

\* the step gave the file to the ImageChecker: a readable image is appended
ImageCheckerTook(p) ==
    p \in DOMAIN PHashTable =>
        image_data' = Append(image_data, [info |-> FileInfo(p), hash |-> PHashTable[p]])

\* the step gave the file to the MD5Checker: a file with a hash is in its bucket
MD5CheckerTook(p) ==
    FileIndexTable[p].file_md5 # "" =>
        \E b \in 1 .. Len(md5_groups') :
            /\ md5_groups'[b].md5 = FileIndexTable[p].file_md5
            /\ md5_groups'[b].files[Len(md5_groups'[b].files)] = FileInfo(p)

\* C18: add_file gives a file with a video extension (lower-cased) to the
\* VideoChecker only, one with an image extension to the ImageChecker only,
\* any other, an empty extension included, to the MD5Checker only; the other
\* checkers' states are unchanged.
C18_ForwardedToFirstSupporting ==
    [][\A p \in FilePaths : Adds(p) =>
          IF ExtOf(p) \in VIDEO_EXTENSIONS
          THEN VideoCheckerTook(p) /\ UNCHANGED <<image_data, md5_groups>>
          ELSE IF ExtOf(p) \in IMAGE_EXTENSIONS
               THEN ImageCheckerTook(p) /\ UNCHANGED <<VideoCheckerState, md5_groups>>
               ELSE MD5CheckerTook(p) /\ UNCHANGED <<VideoCheckerState, image_data>>]_vars

\* a video and an image with upper-case extensions and a file without
\* extension were each taken by their checker
C18_Witness ==
    /\ called = "add_file"
    /\ \E g \in 1 .. Len(video_groups) : video_groups[g][1].path = "c.MKV"
    /\ \E k \in 1 .. Len(image_data) : image_data[k].info.file_path = "q.JPG"
    /\ \E b \in 1 .. Len(md5_groups) : md5_groups[b].files[1].file_path = "y"
    /\ "t.gif" \in fed

-----------------------------------------------------------------------------
(* C19 *)

\* the file a member of a returned group stands for
MemberPath(group, k) ==
    IF IsVideoGroup(group) THEN group.files[k].file_path
    ELSE IF IsImageGroup(group) THEN PathOfId(group.file_ids[k])
    ELSE PathOfId(group.files[k].file_id)

\* the places the file takes in the returned list
Places(p) ==
    {<<g, k>> \in (1 .. Len(ret)) \X (1 .. Cardinality(fed)) :
        k <= Len(Members(ret[g])) /\ MemberPath(ret[g], k) = p}

\* the checker add_file routes the extension to, by the extension sets
RoutedTo(p) ==
    IF ExtOf(p) \in VIDEO_EXTENSIONS THEN "video"
    ELSE IF ExtOf(p) \in IMAGE_EXTENSIONS THEN "image" ELSE "md5"

EmittedBy(group) ==
    IF IsVideoGroup(group) THEN "video"
    ELSE IF IsImageGroup(group) THEN "image" ELSE "md5"

\* C19: every file takes at most one place in the list get_all_results
\* returns, and every member of a group is a file routed to the checker that
\* emitted the group.
C19_EachFileInOneGroup ==
    called = "get_all_results" =>
        /\ \A p \in FilePaths : Cardinality(Places(p)) <= 1
        /\ \A g \in 1 .. Len(ret) : \A k \in 1 .. Len(Members(ret[g])) :
            /\ MemberPath(ret[g], k) \in fed
            /\ RoutedTo(MemberPath(ret[g], k)) = EmittedBy(ret[g])

\* two checkers each returned a group, and the video group holds two files of
\* one exact hash
C19_Witness ==
    /\ called = "get_all_results"
    /\ Len(ret) = 2
    /\ IsVideoGroup(ret[1])
    /\ ret[1].files[1].file_md5 = ret[1].files[2].file_md5
    /\ EmittedBy(ret[2]) # "video"
    /\ \A p \in fed : Cardinality(Places(p)) = 1

-----------------------------------------------------------------------------
(* C20 *)

VideoGroupsReturned == SelectSeq(ret, IsVideoGroup)

\* the place of a group's checker in the checker list [video, image, md5]
CheckerRank(group) ==
    IF IsVideoGroup(group) THEN 1 ELSE IF IsImageGroup(group) THEN 2 ELSE 3

\* C20: in the returned list the video groups come first, then the image
\* groups, then the MD5 groups; the groups of each checker are that checker's
\* results in its order, and the list holds nothing else.
C20_ConcatenationInCheckerOrder ==
    called = "get_all_results" =>
        /\ \A g \in 1 .. Len(ret) : \A h \in g + 1 .. Len(ret) :
            CheckerRank(ret[g]) <= CheckerRank(ret[h])
        /\ VideoGroupsReturned = VideoChecker_get_results(video_groups)
        /\ ImageGroups = ImageChecker_get_results(image_data, cfg.image_threshold)
        /\ Md5Groups = MD5Checker_get_results(md5_groups)
        /\ Len(ret) = Len(VideoGroupsReturned) + Len(ImageGroups) + Len(Md5Groups)

\* the list returned holds groups of two checkers, an image group after a
\* video group or an MD5 group after an image group
C20_Witness ==
    /\ called = "get_all_results"
    /\ Len(ret) = 2
    /\ \/ IsVideoGroup(ret[1]) /\ IsImageGroup(ret[2])
       \/ IsImageGroup(ret[1]) /\ IsMd5Group(ret[2])

-----------------------------------------------------------------------------
(* C27 *)

\* C27 as stated: in every state of the tree the similarity stored for a
\* member at index > 0 is calculate_max_similarity of the member's hashes and
\* the hashes of the member at index 0 of its group.
C27_StoredSimilarityIsToRepresentative ==
    \A g \in 1 .. Len(video_groups) : \A k \in 2 .. Len(video_groups[g]) :
        video_groups[g][k].similarity
            = SimilarityOf(video_groups[g][k].path, video_groups[g][1].path)

-----------------------------------------------------------------------------
(* C30 *)

\* C30: in every emitted image group the seed is the earliest-inserted
\* member, and each other member shares the seed's non-empty exact hash or is
\* within the threshold of the seed's pHash; so an image that matches a
\* non-seed member and not the seed is not in the group.
C30_StarShapedAroundSeed ==
    called = "get_all_results" =>
        \A g \in 1 .. Len(ImageGroups) :
            \A k \in 2 .. Len(ImageGroups[g].file_ids) :
                LET seed == IndexOfId(ImageGroups[g].file_ids[1])
                    member == IndexOfId(ImageGroups[g].file_ids[k])
                IN /\ seed < member
                   /\ Reaches(seed, member)

\* a group whose two non-seed members do not match each other, and a later
\* image that matches one of them and not the seed and is in no group
C30_Witness ==
    /\ called = "get_all_results"
    /\ \E i \in 1 .. Len(image_data) : \E j \in 1 .. Len(image_data) :
        \E m \in 1 .. Len(image_data) : \E o \in 1 .. Len(image_data) :
            /\ InGroupOf(i, j)
            /\ InGroupOf(i, m)
            /\ ~ Reaches(j, m) /\ ~ Reaches(m, j)
            /\ o > j
            /\ Reaches(j, o)
            /\ ~ Reaches(i, o)
            /\ Occurrences(IdAt(o)) = 0

-----------------------------------------------------------------------------
(* C25 *)

Md5Of(p) == FileIndexTable[p].file_md5

\* C25: an entry of the parsed-hash cache is never modified or removed by a
\* later step, and add_video of a video with a features row leaves an entry
\* for the video's exact hash that holds the parsed stored sequence, written
\* by that step only if there was none.
C25_CacheWrittenOnce ==
    [][/\ \A md5 \in DOMAIN parsed_hash_cache :
            /\ md5 \in DOMAIN parsed_hash_cache'
            /\ parsed_hash_cache'[md5] = parsed_hash_cache[md5]
       /\ \A v \in KnownVideos : Adds(v) =>
            /\ Md5Of(v) \in DOMAIN parsed_hash_cache'
            /\ parsed_hash_cache'[Md5Of(v)] = HashesOf(v)
       /\ \A md5 \in DOMAIN parsed_hash_cache' \ DOMAIN parsed_hash_cache :
            \E v \in KnownVideos :
                /\ Md5Of(v) = md5
                /\ Adds(v) \/ \E g \in 1 .. Len(video_groups) : video_groups[g][1].path = v]_vars

\* two videos of one exact hash were added, the second found the entry of the
\* first, and the cache holds a second entry as well
C25_Witness ==
    /\ \E v \in fed : \E w \in fed \ {v} :
        /\ v \in KnownVideos
        /\ w \in KnownVideos
        /\ Md5Of(v) = Md5Of(w)
        /\ Md5Of(v) \in DOMAIN parsed_hash_cache
    /\ Cardinality(DOMAIN parsed_hash_cache) >= 2

-----------------------------------------------------------------------------
(* VideoAnalyzer.generate_hash_sequence *)

\* longest duration given to generate_hash_sequence, in half seconds
MaxHalfSeconds == 9
\* largest sampling interval, in seconds
MaxInterval == 3

\* the whole seconds a frame can be asked at
Timestamps == 0 .. (MaxHalfSeconds \div 2)

\* int(duration), for a duration that is not negative
int(x) == x[1] \div x[2]

\* range(start, stop, step)
RECURSIVE range(_, _, _)
range(start, stop, step) ==
    IF start >= stop THEN <<>> ELSE <<start>> \o range(start + step, stop, step)

\* imagehash.phash of the frame at a timestamp: the frame it was taken from
phash(timestamp) == [frame_at |-> timestamp]

\* extract_frame_hash(cap, timestamp): None when the frame cannot be read
extract_frame_hash(timestamp) ==
    IF timestamp \in failing THEN {} ELSE {phash(timestamp)}

\* the loop body: append the hash when there is one
RECURSIVE AppendHashes(_, _)
AppendHashes(timestamps, acc) ==
    IF timestamps = <<>> THEN acc
    ELSE LET frame_hash == extract_frame_hash(Head(timestamps))
         IN AppendHashes(Tail(timestamps),
                         IF frame_hash # {}
                         THEN acc \o <<CHOOSE h \in frame_hash : TRUE>>
                         ELSE acc)

\* VideoAnalyzer.generate_hash_sequence(cap, duration, interval)
generate_hash_sequence(dur, step) ==
    AppendHashes(range(0, int(dur), step), <<>>)

InitAnalyzer ==
    /\ HelperIdle
    /\ MatcherIdle
    /\ ServiceIdle
    /\ \E n \in 0 .. MaxHalfSeconds : duration = Div(n, 2)
    /\ interval \in 1 .. MaxInterval
    /\ failing \in SUBSET Timestamps
    /\ hashes = <<>>
    /\ g_pc = "start"

GenerateHashSequence ==
    /\ g_pc = "start"
    /\ hashes' = generate_hash_sequence(duration, interval)
    /\ g_pc' = "done"
    /\ UNCHANGED <<duration, interval, failing>>
    /\ UNCHANGED <<helperVars, matcherVars, serviceVars>>

NextAnalyzer == GenerateHashSequence

SpecAnalyzer == InitAnalyzer /\ [][NextAnalyzer]_vars

-----------------------------------------------------------------------------
(* C26 *)

\* the timestamps 0, interval, 2*interval, ... strictly below the duration
BelowDuration ==
    {t \in Timestamps : t % interval = 0 /\ Lt(<<t, 1>>, duration)}

\* C26: the returned sequence holds, in ascending order of timestamp, exactly
\* one hash for every multiple of the interval that is strictly below the
\* duration and whose frame decodes, and is empty when none decodes.
C26_SamplesEveryTimestampBelowDuration ==
    g_pc = "done" =>
        /\ {hashes[k].frame_at : k \in 1 .. Len(hashes)} = BelowDuration \ failing
        /\ \A k \in 1 .. Len(hashes) - 1 : hashes[k].frame_at < hashes[k + 1].frame_at
        /\ (BelowDuration \subseteq failing) => hashes = <<>>

-----------------------------------------------------------------------------
(* DuplicateService *)

\* rows of file_index at most
MaxRows == 3
\* start_async_check calls that start a check
MaxRuns == 2
\* rows fetched per page by _internal_check; 500 in the code
batch_size == 2

\* the paths of FileIndexTable in ascending id
RECURSIVE FilesById(_)
FilesById(paths) ==
    IF paths = {} THEN <<>>
    ELSE LET first == CHOOSE p \in paths :
                        \A q \in paths : FileIndexTable[p].id <= FileIndexTable[q].id
         IN <<first>> \o FilesById(paths \ {first})

\* the settings the service's helper is built from
ServiceSettings ==
    [video_frame_similar_distance |-> 1, video_frame_similarity_rate |-> <<7, 10>>,
     video_max_duration_diff_ratio |-> <<6, 10>>, image_threshold |-> 8]

\* DBOperations.get_file_count(FileType.FILE_INDEX)
get_file_count == Len(file_index)

\* DBOperations.get_file_list_with_pagination(limit, offset, sort_by="id", order="ASC")
get_file_list_with_pagination(limit, offset) ==
    SubSeq(file_index, offset + 1,
           IF offset + limit < Len(file_index) THEN offset + limit ELSE Len(file_index))

\* DuplicateService.get_status()
get_status ==
    LET results == IF status # "checking" THEN duplicate_results ELSE <<>>
    IN [status |-> IF status # "checking" /\ results # <<>> THEN "completed" ELSE status,
        progress |-> progress,
        results |-> results]

may_start_always(s) == TRUE

\* start_async_check: if cls._status == "checking": return False
may_start(s) == s # "checking"

start_stop_flag_kept(flag) == flag

\* start_async_check: cls._stop_flag = False
start_stop_flag(flag) == FALSE

is_stopped_never(flag) == FALSE

\* DuplicateService._is_stopped()
is_stopped(flag) == flag

\* a thread running _internal_check, at its first statement
NewWorker ==
    [pc |-> "count", total_files |-> 0, processed_count |-> 0, files |-> <<>>,
     k |-> 0, helper |-> NewHelper, fed |-> <<>>, results |-> <<>>, end |-> "none"]

\* DuplicateService.start_async_check(), up to the release of the lock
StartAsyncCheck ==
    /\ IF ~ may_start(status)
       THEN /\ last_api' = [name |-> "start_async_check", result |-> FALSE]
            /\ UNCHANGED <<status, stop_flag, progress, duplicate_results, starting>>
       ELSE /\ Len(workers) + starting < MaxRuns
            /\ status' = "checking"
            /\ stop_flag' = start_stop_flag(stop_flag)
            /\ progress' = [total |-> 0, current |-> 0, status_text |-> "initialising"]
            /\ duplicate_results' = <<>>
            /\ starting' = starting + 1
            /\ last_api' = [name |-> "start_async_check", result |-> TRUE]
    /\ UNCHANGED <<file_index, raising, workers>>
    /\ UNCHANGED <<helperVars, matcherVars, analyzerVars>>

\* start_async_check: thread.start()
ThreadStart ==
    /\ starting > 0
    /\ starting' = starting - 1
    /\ workers' = Append(workers, NewWorker)
    /\ UNCHANGED <<status, stop_flag, progress, file_index, raising,
                   duplicate_results, last_api>>
    /\ UNCHANGED <<helperVars, matcherVars, analyzerVars>>

\* DuplicateService.stop_check()
StopCheck ==
    /\ IF status = "checking"
       THEN /\ stop_flag' = TRUE
            /\ last_api' = [name |-> "stop_check", result |-> TRUE]
       ELSE /\ last_api' = [name |-> "stop_check", result |-> FALSE]
            /\ UNCHANGED stop_flag
    /\ UNCHANGED <<status, progress, file_index, raising, duplicate_results,
                   starting, workers>>
    /\ UNCHANGED <<helperVars, matcherVars, analyzerVars>>

\* _internal_check: get_file_count, the empty-table return, the first _update_progress
Count(w) ==
    /\ workers[w].pc = "count"
    /\ LET total_files == get_file_count
       IN IF total_files = 0
          THEN /\ workers' = [workers EXCEPT ![w].pc = "save", ![w].results = <<>>]
               /\ UNCHANGED progress
          ELSE /\ workers' = [workers EXCEPT ![w].pc = "poll",
                                             ![w].total_files = total_files,
                                             ![w].helper = NewHelper]
               /\ progress' = [progress EXCEPT !.total = total_files,
                                                !.status_text = "analysing"]
    /\ UNCHANGED <<status, stop_flag, file_index, raising, duplicate_results,
                   starting, last_api>>
    /\ UNCHANGED <<helperVars, matcherVars, analyzerVars>>

\* the head of the while loop: the loop test, _is_stopped(), _update_progress
\* and the page read; after the loop, helper.get_all_results()
Poll(w) ==
    /\ workers[w].pc = "poll"
    /\ LET me == workers[w]
           files == get_file_list_with_pagination(batch_size, me.processed_count)
       IN IF me.processed_count < me.total_files
          THEN IF is_stopped(stop_flag)
               THEN /\ workers' = [workers EXCEPT ![w].pc = "stopped"]
                    /\ UNCHANGED progress
               ELSE /\ progress' = [progress EXCEPT !.current = me.processed_count,
                                                    !.total = me.total_files,
                                                    !.status_text = "analysing"]
                    /\ IF files = <<>>
                       THEN workers' = [workers EXCEPT
                                            ![w].pc = "save",
                                            ![w].results = get_all_results(me.helper, cfg)]
                       ELSE workers' = [workers EXCEPT ![w].pc = "feed",
                                                       ![w].files = files,
                                                       ![w].k = 0]
          ELSE /\ workers' = [workers EXCEPT
                                  ![w].pc = "save",
                                  ![w].results = get_all_results(me.helper, cfg)]
               /\ UNCHANGED progress
    /\ UNCHANGED <<status, stop_flag, file_index, raising, duplicate_results,
                   starting, last_api>>
    /\ UNCHANGED <<helperVars, matcherVars, analyzerVars>>

\* one helper.add_file(file_info) of the for loop; after the last one of the
\* page, processed_count += len(files) and _update_progress(current)
Feed(w) ==
    /\ workers[w].pc = "feed"
    /\ LET me == workers[w]
           path == me.files[me.k + 1]
       IN IF path \in raising
          THEN /\ workers' = [workers EXCEPT ![w].pc = "except",
                                             ![w].fed = Append(me.fed, path)]
               /\ UNCHANGED progress
          ELSE IF me.k + 1 < Len(me.files)
          THEN /\ workers' = [workers EXCEPT
                                  ![w].helper = add_file(me.helper, cfg, path),
                                  ![w].fed = Append(me.fed, path),
                                  ![w].k = me.k + 1]
               /\ UNCHANGED progress
          ELSE /\ workers' = [workers EXCEPT
                                  ![w].helper = add_file(me.helper, cfg, path),
                                  ![w].fed = Append(me.fed, path),
                                  ![w].k = me.k + 1,
                                  ![w].pc = "poll",
                                  ![w].processed_count =
                                      me.processed_count + Len(me.files)]
               /\ progress' = [progress EXCEPT
                                  !.current = me.processed_count + Len(me.files)]
    /\ UNCHANGED <<status, stop_flag, file_index, raising,
                   duplicate_results, starting, last_api>>
    /\ UNCHANGED <<helperVars, matcherVars, analyzerVars>>

\* _complete_check: DBOperations.save_duplicate_results(results)
Save(w) ==
    /\ workers[w].pc = "save"
    /\ duplicate_results' = workers[w].results
    /\ workers' = [workers EXCEPT ![w].pc = "complete"]
    /\ UNCHANGED <<status, stop_flag, progress, file_index, raising, starting, last_api>>
    /\ UNCHANGED <<helperVars, matcherVars, analyzerVars>>

\* _complete_check: the update of _status and _progress under the lock
Complete(w) ==
    /\ workers[w].pc = "complete"
    /\ status' = "completed"
    /\ progress' = [progress EXCEPT
                        !.current = progress.total,
                        !.status_text = IF workers[w].total_files = 0
                                        THEN "no files" ELSE "completed"]
    /\ workers' = [workers EXCEPT ![w].pc = "done", ![w].end = "completed"]
    /\ UNCHANGED <<stop_flag, file_index, raising, duplicate_results, starting, last_api>>
    /\ UNCHANGED <<helperVars, matcherVars, analyzerVars>>

\* DuplicateService._handle_stopped()
HandleStopped(w) ==
    /\ workers[w].pc = "stopped"
    /\ status' = "idle"
    /\ stop_flag' = FALSE
    /\ progress' = [progress EXCEPT !.status_text = "stopped"]
    /\ workers' = [workers EXCEPT ![w].pc = "done", ![w].end = "idle"]
    /\ UNCHANGED <<file_index, raising, duplicate_results, starting, last_api>>
    /\ UNCHANGED <<helperVars, matcherVars, analyzerVars>>

\* _internal_check: except Exception
Except(w) ==
    /\ workers[w].pc = "except"
    /\ status' = "error"
    /\ progress' = [progress EXCEPT !.status_text = "error"]
    /\ workers' = [workers EXCEPT ![w].pc = "done", ![w].end = "error"]
    /\ UNCHANGED <<stop_flag, file_index, raising, duplicate_results, starting, last_api>>
    /\ UNCHANGED <<helperVars, matcherVars, analyzerVars>>

\* one step of the thread w
InternalCheck(w) ==
    \/ Count(w)
    \/ Poll(w)
    \/ Feed(w)
    \/ Save(w)
    \/ Complete(w)
    \/ HandleStopped(w)
    \/ Except(w)

\* the class as loaded, a file_index table, and the files add_file fails on
InitService ==
    /\ cfg = ServiceSettings
    /\ video_groups = <<>>
    /\ parsed_hash_cache = <<>>
    /\ image_data = <<>>
    /\ md5_groups = <<>>
    /\ fed = {}
    /\ compared = {}
    /\ called = "idle"
    /\ ret = <<>>
    /\ MatcherIdle
    /\ AnalyzerIdle
    /\ status = "idle"
    /\ stop_flag = FALSE
    /\ progress = [total |-> 0, current |-> 0, status_text |-> ""]
    /\ \E n \in 0 .. MaxRows : file_index = SubSeq(FilesById(FilePaths), 1, n)
    /\ \E bad \in SUBSET {file_index[i] : i \in 1 .. Len(file_index)} :
            Cardinality(bad) <= 1 /\ raising = bad
    /\ duplicate_results = <<>>
    /\ starting = 0
    /\ workers = <<>>
    /\ last_api = [name |-> "none", result |-> FALSE]

NextService ==
    \/ StartAsyncCheck
    \/ ThreadStart
    \/ StopCheck
    \/ \E w \in DOMAIN workers : Count(w)
    \/ \E w \in DOMAIN workers : Poll(w)
    \/ \E w \in DOMAIN workers : Feed(w)
    \/ \E w \in DOMAIN workers : Save(w)
    \/ \E w \in DOMAIN workers : Complete(w)
    \/ \E w \in DOMAIN workers : HandleStopped(w)
    \/ \E w \in DOMAIN workers : Except(w)

SpecService == InitService /\ [][NextService]_vars

\* the thread w has a next statement; every statement of _internal_check
\* can be taken as soon as the thread is at it, and changes the thread
Running(w) == w \in DOMAIN workers /\ workers[w].pc # "done"

\* thread.start() follows the locked section of the call that created the
\* thread, and a started thread is scheduled until it returns: weak fairness
\* of ThreadStart and of each thread's steps, the latter written out with
\* Running(w) for ENABLED <<InternalCheck(w)>>_vars
FairSpecService ==
    /\ SpecService
    /\ WF_vars(ThreadStart)
    /\ \A w \in 1 .. MaxRuns :
          \/ []<>(~ Running(w))
          \/ []<><<w \in DOMAIN workers /\ InternalCheck(w)>>_vars

-----------------------------------------------------------------------------
(* C21 *)

\* the files the thread w has passed to helper.add_file
FedBy(w) == {workers[w].fed[k] : k \in 1 .. Len(workers[w].fed)}

\* C21: a run in which add_file raised for a file still feeds every other
\* file of the table to the helper and ends with status completed.
C21_BadFileDoesNotAbort ==
    \A w \in DOMAIN workers :
        (workers[w].pc = "done" /\ FedBy(w) \cap raising # {}) =>
            /\ workers[w].end = "completed"
            /\ \A i \in 1 .. Len(file_index) : file_index[i] \in FedBy(w)

-----------------------------------------------------------------------------
(* C22 *)

\* the last run was cancelled and nothing was started since
LastRunCancelled ==
    /\ workers # <<>>
    /\ workers[Len(workers)].end = "idle"
    /\ starting = 0
    /\ status = "idle"

\* C22: after a run was cancelled through the stop flag, get_status gives the
\* caller the groups of the files that run had ingested.
C22_PartialResultsRetained ==
    LastRunCancelled =>
        get_status.results = get_all_results(workers[Len(workers)].helper, cfg)

-----------------------------------------------------------------------------
(* C23 *)

\* the thread w is at the head of the loop with a batch left and the flag set
AtBatchStartUnderStop(w) ==
    /\ workers[w].pc = "poll"
    /\ workers[w].processed_count < workers[w].total_files
    /\ stop_flag

\* C23: a thread that reaches the start of a batch while the flag is set goes
\* to _handle_stopped, and passes no file to add_file from then on; a stop
\* request made while the status is checking is followed by a status other
\* than checking.
C23_StopPolledBeforeEachBatch ==
    /\ [][\A w \in DOMAIN workers :
            /\ (AtBatchStartUnderStop(w) /\ workers'[w] # workers[w]) =>
                    workers'[w].pc = "stopped"
            /\ workers[w].pc \in {"stopped", "done"} =>
                    /\ workers'[w].fed = workers[w].fed
                    /\ workers'[w].pc \in {"stopped", "done"}]_vars
    /\ (status = "checking" /\ stop_flag) ~> (status # "checking")

\* a run stopped after its first batch, the rest of the table never fed
C23_Witness ==
    \E w \in DOMAIN workers :
        /\ workers[w].end = "idle"
        /\ Len(workers[w].fed) = batch_size
        /\ Len(file_index) > batch_size
        /\ status = "idle"

-----------------------------------------------------------------------------
(* C28 *)

\* threads created or running that have not written their final status
Active == starting + Cardinality({w \in DOMAIN workers : workers[w].pc # "done"})

\* C28: at most one _internal_check thread exists that has not finished, and
\* a start_async_check call made while the status is checking returns False
\* and creates no thread.
C28_AtMostOneCheck ==
    /\ [](Active <= 1)
    /\ [][(/\ status = "checking"
           /\ last_api' # last_api
           /\ last_api'.name = "start_async_check") =>
                /\ last_api'.result = FALSE
                /\ starting' = starting
                /\ workers' = workers
                /\ status' = "checking"]_vars

\* a call was refused while a thread was in the middle of a batch
C28_Witness ==
    /\ last_api = [name |-> "start_async_check", result |-> FALSE]
    /\ \E w \in DOMAIN workers : workers[w].pc = "feed" /\ workers[w].k > 0

-----------------------------------------------------------------------------
(* C29 *)

\* C29: a check that start_async_check starts begins with the flag false;
\* the flag becomes true only by a stop_check made while the status is
\* checking, so a thread is cancelled only by a stop_check of its own run;
\* stop_check made while the status is not checking leaves the flag as it is.
C29_StopDoesNotLeak ==
    [][/\ starting' > starting => ~ stop_flag'
       /\ (~ stop_flag /\ stop_flag') =>
             /\ status = "checking"
             /\ last_api' = [name |-> "stop_check", result |-> TRUE]
       /\ \A w \in DOMAIN workers :
             (workers[w].pc # "stopped" /\ workers'[w].pc = "stopped") => stop_flag
       /\ (/\ status # "checking"
           /\ last_api' # last_api
           /\ last_api'.name = "stop_check") => stop_flag' = stop_flag]_vars

\* the flag of a stop_check that came after the last poll is still set when
\* the run has ended, and a stop_check made after the end was ignored; the
\* next start_async_check starts from this state
C29_Witness ==
    /\ stop_flag
    /\ status \in {"completed", "error"}
    /\ last_api = [name |-> "stop_check", result |-> FALSE]
    /\ Len(workers) + starting < MaxRuns

====
